---- MODULE Spec2Model ----
(***************************************************************************)
(* Email ingestion pipeline of privategpt: EmailProcessor                  *)
(* (email_processor.py), EnhancedEmailProcessor                            *)
(* (enhanced_email_processor.py) and PrivateGPTClient                      *)
(* (rag/privategpt_client.py).                                             *)
(*                                                                         *)
(* One processor process at a time works on one index file                 *)
(* (processed_emails.json) and one remote Private-GPT service.  The remote *)
(* service, the clock, the file system and process kills are the           *)
(* environment: each request may be answered, rejected, lost or stored     *)
(* and lost; each write of the index file may fail; the process may be     *)
(* killed between any two steps.                                           *)
(*                                                                         *)
(* Strings are sequences of one-character strings.  The MD5 digest is      *)
(* taken to be injective and is modelled by tagging its input.             *)
(***************************************************************************)
EXTENDS Naturals, Sequences, FiniteSets

\* ------------------------------------------------------------------ bounds

\* direct process_email_file calls (single-file mode, watch events) in one
\* behaviour
MaxCalls == 3
\* process_directory calls in one behaviour
MaxScans == 1
\* process kills (and restarts) in one behaviour
MaxKills == 1
\* distinct readings of datetime.now()
MaxClock == 2

\* ----------------------------------------------------------------- strings

NoSubject == <<"N", "o", " ", "S", "u", "b", "j", "e", "c", "t">>
UnknownSender ==
  <<"U", "n", "k", "n", "o", "w", "n", " ", "S", "e", "n", "d", "e", "r">>
Digits == <<"0", "1", "2", "3", "4", "5", "6", "7", "8", "9">>

\* str.lower() on the letters
Upper == <<"A", "B", "C", "D", "E", "F", "G", "H", "I", "J", "K", "L", "M", "N", "O", "P", "Q", "R", "S", "T", "U", "V", "W", "X", "Y", "Z">>
Lower == <<"a", "b", "c", "d", "e", "f", "g", "h", "i", "j", "k", "l", "m", "n", "o", "p", "q", "r", "s", "t", "u", "v", "w", "x", "y", "z">>
LowerChar(c) ==
  IF \E i \in 1..Len(Upper) : Upper[i] = c
  THEN Lower[CHOOSE i \in 1..Len(Upper) : Upper[i] = c]
  ELSE c
ToLower(s) == [i \in 1..Len(s) |-> LowerChar(s[i])]

\* a header that is present with a value, or absent
Header(v) == [present |-> TRUE, value |-> v]
NoHeader == [present |-> FALSE, value |-> <<>>]

\* msg.get(name, default)
Get(h, default) == IF h.present THEN h.value ELSE default

\* datetime.now().isoformat() at clock reading t
NowIso(t) == <<"T", Digits[t + 1]>>

\* Date header values email.utils.parsedate_to_datetime accepts: an optional
\* day-of-week token "W" followed by a date-time; isoformat() renders the
\* date-time and so drops the day of week.
DateTimes == {<<"J", "1">>, <<"J", "2">>}
Parsable(s) == s \in DateTimes \/ (s # <<>> /\ Head(s) = "W" /\ Tail(s) \in DateTimes)
IsoFormat(s) == IF s \in DateTimes THEN s ELSE Tail(s)

\* date_formatted of _extract_email_content
FormatDate(date_str, now) ==
  IF date_str # <<>> /\ Parsable(date_str) THEN IsoFormat(date_str) ELSE NowIso(now)

\* _generate_email_hash: md5 of "subject|sender|date"
GenerateEmailHash(subject, sender, date) ==
  [md5 |-> subject \o <<"|">> \o sender \o <<"|">> \o date]

\* ------------------------------------------------------------ the directory

\* The files of the watched directory.  a.eml and b.eml carry the same
\* message; c.eml has no Subject and no Date header; d.EML cannot be parsed;
\* n.txt is no email file.
Paths == {"a.eml", "b.eml", "c.eml", "d.EML", "n.txt"}

File(p) ==
  CASE p = "a.eml" -> [parses |-> TRUE, subject |-> Header(<<"h", "i">>),
                       from |-> Header(<<"x">>), date |-> Header(<<"W", "J", "1">>)]
    [] p = "b.eml" -> [parses |-> TRUE, subject |-> Header(<<"h", "i">>),
                       from |-> Header(<<"x">>), date |-> Header(<<"J", "1">>)]
    [] p = "c.eml" -> [parses |-> TRUE, subject |-> NoHeader,
                       from |-> Header(<<"x">>), date |-> NoHeader]
    [] p = "d.EML" -> [parses |-> FALSE, subject |-> NoHeader,
                       from |-> NoHeader, date |-> NoHeader]
    [] OTHER -> [parses |-> TRUE, subject |-> Header(<<"n">>),
                 from |-> Header(<<"y">>), date |-> Header(<<"J", "2">>)]

\* file_path.suffix
Suffix(p) ==
  CASE p = "d.EML" -> <<".", "E", "M", "L">>
    [] p = "n.txt" -> <<".", "t", "x", "t">>
    [] OTHER -> <<".", "e", "m", "l">>

\* email_extensions = {'.eml', '.mbox', '.elmx'}
EmailExtensions ==
  {<<".", "e", "m", "l">>, <<".", "m", "b", "o", "x">>, <<".", "e", "l", "m", "x">>}

\* file_path.suffix.lower() in email_extensions
IsEmailFile(p) == ToLower(Suffix(p)) \in EmailExtensions

\* The metadata dict of _extract_email_content for file p read at time now
\* (the keys the pipeline reads; content_type and processed_at are left out)
Metadata(p, now) ==
  LET f == File(p)
      subject == Get(f.subject, NoSubject)
      sender == Get(f.from, UnknownSender)
      date == FormatDate(Get(f.date, <<>>), now)
  IN  [subject |-> subject, sender |-> sender, date |-> date, source_file |-> p]

\* (mutant) an exception in the extraction is not turned into None
ExtractAlways(p, now) == [ok |-> TRUE, metadata |-> Metadata(p, now)]

\* _extract_email_content: None when reading or parsing raises
Extract(p, now) ==
  IF File(p).parses THEN [ok |-> TRUE, metadata |-> Metadata(p, now)]
  ELSE [ok |-> FALSE, metadata |-> Metadata(p, now)]

\* Whether the extraction of file p uses datetime.now() for date_formatted
ReadsClock(p) ==
  LET d == Get(File(p).date, <<>>) IN File(p).parses /\ ~(d # <<>> /\ Parsable(d))

\* the dedup key of process_email_file
EmailHash(md) == GenerateEmailHash(md.subject, md.sender, md.date)

\* ------------------------------------------------------------ JSON values

\* A dict with no key
EmptyDict == [h \in {} |-> h]

\* What json.load can return: a dict (kind "object", its items in idx), or a
\* value that is no dict: a list holding no fingerprint ("list"), or a
\* number, boolean or null ("scalar").
Dict(idx) == [kind |-> "object", idx |-> idx]
JsonList == [kind |-> "list", idx |-> EmptyDict]
JsonScalar == [kind |-> "scalar", idx |-> EmptyDict]

\* The index file: absent, present but not readable as text (open or read
\* raises OSError or UnicodeDecodeError), present with text that is no JSON
\* document (among them the empty and the truncated file), or a JSON document.
FileAbsent == [state |-> "absent", json |-> Dict(EmptyDict)]
FileUnreadable == [state |-> "unreadable", json |-> Dict(EmptyDict)]
FileInvalid == [state |-> "invalid", json |-> Dict(EmptyDict)]
FileJson(v) == [state |-> "json", json |-> v]

\* _load_processed_emails: only json.JSONDecodeError is caught
LoadProcessedEmails(file) ==
  CASE file.state = "absent" -> [raised |-> FALSE, value |-> Dict(EmptyDict)]
    [] file.state = "invalid" -> [raised |-> FALSE, value |-> Dict(EmptyDict)]
    [] file.state = "json" -> [raised |-> FALSE, value |-> file.json]
    [] OTHER -> [raised |-> TRUE, value |-> Dict(EmptyDict)]

\* email_hash in self.processed_emails
Contains(v, h) ==
  CASE v.kind = "object" -> IF h \in DOMAIN v.idx THEN "yes" ELSE "no"
    [] v.kind = "list" -> "no"
    [] OTHER -> "TypeError"

\* (mutant) the fingerprint is not put into the index
SetItemDropped(v, h, md) == [raised |-> v.kind # "object", value |-> v]

\* (mutant) the index is replaced by one that holds the new entry alone
SetItemAlone(v, h, md) ==
  [raised |-> v.kind # "object", value |-> IF v.kind = "object" THEN Dict([k \in {h} |-> md]) ELSE v]

\* self.processed_emails[email_hash] = metadata
SetItem(v, h, md) ==
  IF v.kind = "object"
  THEN [raised |-> FALSE,
        value |-> Dict([k \in DOMAIN v.idx \cup {h} |-> IF k = h THEN md ELSE v.idx[k]])]
  ELSE [raised |-> TRUE, value |-> v]

\* ------------------------------------------------------------------- state

VARIABLES
  variant,        \* "basic": EmailProcessor, "enhanced": EnhancedEmailProcessor
  disk,           \* the index file (processed_file)
  temp,           \* the temp_email_<id>.txt files on disk, by id
  proc,           \* "down" or "up": whether a processor process is running
  boot,           \* how the last constructor call ended: "none", "ok", "fatal"
  mem,            \* self.processed_emails
  pc,             \* position inside process_email_file
  cur,            \* the call in progress
  clock,          \* the last reading of datetime.now()
  stored,         \* remote service: times each message's content was stored
  reqs,           \* requests sent to the remote service by the current/last call
  pre,            \* the index as it was when the current/last call began:
                  \* mem and disk then, whether the call's fingerprint was in
                  \* mem (dup) or recorded before this process started (known),
                  \* and whether the process that made the call still runs
  last,           \* summary of the last completed call of this process
  prev,           \* path and outcome of the completed call before it
  unrecorded,     \* stores whose call did not complete with Processed
  recorded,       \* fingerprints for which a call returned Processed
  recordedBefore, \* recorded, as it was when this process started
  scan,           \* process_directory in progress
  calls,          \* direct process_email_file calls begun
  kills,          \* process kills
  scans,          \* process_directory calls begun
  arg,            \* the arguments of a function of the extractor called alone
  res,            \* what that function returned
  main,           \* DirectoryWatcher: position of the main thread
  obs,            \* DirectoryWatcher: the observer thread
  queue,          \* the observer's event queue
  handler,        \* EmailFileHandler: position inside on_created / on_moved
  signals,        \* interrupt signals delivered
  aborted         \* where the process_email_file call in flight was when the
                  \* process ended on a signal, "none" when it ended no call

vars ==
  <<variant, disk, temp, proc, boot, mem, pc, cur, clock, stored, reqs,
    pre, last, prev, unrecorded, recorded, recordedBefore, scan, calls, kills,
    scans, arg, res, main, obs, queue, handler, signals, aborted>>

\* the functions of the extractor called alone
pvars == <<arg, res>>
\* the watcher
wvars == <<main, obs, queue, handler, signals, aborted>>

NoHash == [md5 |-> <<>>]
NoMetadata ==
  [subject |-> <<>>, sender |-> <<>>, date |-> <<>>, source_file |-> ""]
NoCall ==
  [path |-> "", hash |-> NoHash, metadata |-> NoMetadata, stored |-> FALSE,
   failed |-> FALSE, healthy |-> FALSE, uploaded |-> FALSE, metaOK |-> FALSE]
\* what is kept of a call once it has ended
Summary(c, o) ==
  [path |-> c.path, hash |-> c.hash, stored |-> c.stored, failed |-> c.failed,
   healthy |-> c.healthy, uploaded |-> c.uploaded, metaOK |-> c.metaOK,
   outcome |-> o]
NoSummary == Summary(NoCall, "none")
NoPrevious == [path |-> "", outcome |-> "none"]
NoScan ==
  [active |-> FALSE, todo |-> {}, count |-> 0, processed |-> 0, skipped |-> 0,
   failed |-> 0, returned |-> FALSE]

\* a bag of fingerprints
Count(b, h) == IF h \in DOMAIN b THEN b[h] ELSE 0
Inc(b, h) == [k \in DOMAIN b \cup {h} |-> IF k = h THEN Count(b, h) + 1 ELSE b[k]]

NoArg == [fn |-> "none"]
NoRes == [fn |-> "none"]
NoHandler == [at |-> "idle", path |-> ""]

InitialFiles ==
  {FileAbsent, FileUnreadable, FileInvalid, FileJson(JsonList), FileJson(JsonScalar)}

Init ==
  /\ variant \in {"basic", "enhanced"}
  /\ disk \in InitialFiles
  /\ temp = {}
  /\ proc = "down"
  /\ boot = "none"
  /\ mem = Dict(EmptyDict)
  /\ pc = "idle"
  /\ cur = NoCall
  /\ clock = 0
  /\ stored = EmptyDict
  /\ reqs = <<>>
  /\ pre = [mem |-> Dict(EmptyDict), disk |-> disk, dup |-> FALSE, known |-> FALSE,
            live |-> FALSE]
  /\ last = NoSummary
  /\ prev = NoPrevious
  /\ unrecorded = 0
  /\ recorded = {}
  /\ recordedBefore = {}
  /\ scan = NoScan
  /\ calls = 0
  /\ kills = 0
  /\ scans = 0
  /\ arg = NoArg
  /\ res = NoRes
  /\ main = "new"
  /\ obs = "none"
  /\ queue = <<>>
  /\ handler = NoHandler
  /\ signals = 0
  /\ aborted = "none"

\* ------------------------------------------------------- process lifetime

\* __init__: the constructor loads the index; an exception that escapes
\* _load_processed_emails ends the process before it processed anything.
Start ==
  /\ proc = "down"
  /\ LET r == LoadProcessedEmails(disk)
     IN  IF r.raised
         THEN /\ boot' = "fatal"
              /\ UNCHANGED <<proc, mem>>
         ELSE /\ boot' = "ok"
              /\ proc' = "up"
              /\ mem' = r.value
  /\ recordedBefore' = recorded
  /\ UNCHANGED <<variant, disk, temp, pc, cur, clock, stored, reqs, pre,
                 last, prev, unrecorded, recorded, scan, calls, kills, scans>>

\* The process is killed (or exits) at any point: memory is lost, the files
\* stay as they are.  A store made by the call in progress stays unrecorded.
Kill ==
  /\ proc = "up"
  /\ kills < MaxKills
  /\ kills' = kills + 1
  /\ proc' = "down"
  /\ mem' = Dict(EmptyDict)
  /\ pc' = "idle"
  /\ cur' = NoCall
  /\ last' = NoSummary
  /\ prev' = NoPrevious
  /\ scan' = NoScan
  /\ unrecorded' = IF cur.stored THEN unrecorded + 1 ELSE unrecorded
  /\ pre' = [pre EXCEPT !.live = FALSE]
  /\ UNCHANGED <<variant, disk, temp, boot, clock, stored, reqs,
                 recorded, recordedBefore, calls, scans>>

\* ------------------------------------------------------ process_email_file

\* The bool process_email_file returns: True for a new ingestion and for a
\* duplicate, False for a failure.
ReturnValue(o) == o \in {"Processed", "Skipped"}

\* (mutant) every file handed to process_email_file is counted
CountAlways(count, ret) == count + 1

\* process_directory: if self.process_email_file(file_path): processed_count += 1
CountAfter(count, ret) == IF ret THEN count + 1 ELSE count

\* process_directory after the call for p ended with outcome o: an exception
\* leaves the loop and the function.
AfterCall(sc, p, o) ==
  IF o = "Raised"
  THEN [sc EXCEPT !.active = FALSE]
  ELSE [sc EXCEPT !.todo = @ \ {p},
                  !.count = CountAfter(@, ReturnValue(o)),
                  !.processed = IF o = "Processed" THEN @ + 1 ELSE @,
                  !.skipped = IF o = "Skipped" THEN @ + 1 ELSE @,
                  !.failed = IF o = "Failed" THEN @ + 1 ELSE @]

\* process_email_file ends for call c: "Processed" (ingested and recorded,
\* returns True), "Skipped" (duplicate, returns True), "Failed" (returns
\* False) or "Raised" (an exception escapes).
Return(c, o) ==
  /\ pc' = "idle"
  /\ cur' = NoCall
  /\ prev' = [path |-> last.path, outcome |-> last.outcome]
  /\ last' = Summary(c, o)
  /\ unrecorded' = IF c.stored /\ o # "Processed" THEN unrecorded + 1 ELSE unrecorded
  /\ recorded' = IF o = "Processed" THEN recorded \cup {c.hash} ELSE recorded
  /\ scan' = IF scan.active THEN AfterCall(scan, c.path, o) ELSE scan

Continue(c, next) ==
  /\ pc' = next
  /\ cur' = c
  /\ UNCHANGED <<last, prev, unrecorded, recorded, scan>>

\* (mutant) the duplicate check never finds the fingerprint
IsDuplicateNever(index, h) == "no"

\* if email_hash in self.processed_emails
IsDuplicate(index, h) == Contains(index, h)

\* The readings datetime.now() can give after clock: the time may have moved
\* on or not.  A reading nobody uses is not taken.
Readings(p) ==
  IF ReadsClock(p) /\ clock < MaxClock THEN {clock, clock + 1} ELSE {clock}

\* process_email_file up to the duplicate check: extraction, fingerprint,
\* lookup.
ProcessBegin(p) ==
  /\ proc = "up"
  /\ pc = "idle"
  /\ \E now \in Readings(p) :
       /\ clock' = now
       /\ LET r == Extract(p, now)
              h == EmailHash(r.metadata)
              c == [NoCall EXCEPT !.path = p, !.hash = h, !.metadata = r.metadata]
              dup == IsDuplicate(mem, h)
          IN  /\ pre' = [mem |-> mem, disk |-> disk,
                         dup |-> r.ok /\ mem.kind = "object" /\ h \in DOMAIN mem.idx,
                         known |-> r.ok /\ h \in recordedBefore, live |-> TRUE]
              /\ IF ~r.ok THEN Return(c, "Failed")
                 ELSE IF dup = "TypeError" THEN Return(c, "Raised")
                 ELSE IF dup = "yes" THEN Return(c, "Skipped")
                 ELSE Continue(c, "ingest")
  /\ reqs' = <<>>
  /\ UNCHANGED <<variant, disk, temp, proc, boot, mem, stored, recordedBefore, kills, scans>>

\* process_email_file called directly: single-file mode, or the watcher's
\* handler for an email file
DirectCall(p) ==
  /\ ~scan.active
  /\ IsEmailFile(p)
  /\ calls < MaxCalls
  /\ calls' = calls + 1
  /\ ProcessBegin(p)

\* process_directory: a file with an email suffix is handed to
\* process_email_file
ScanCall(p) ==
  /\ scan.active
  /\ p \in scan.todo
  /\ IsEmailFile(p)
  /\ ProcessBegin(p)
  /\ UNCHANGED calls

\* self.processed_emails[email_hash] = metadata, after a successful ingestion
MarkProcessed(c) ==
  LET r == SetItem(mem, c.hash, c.metadata)
  IN  IF r.raised
      THEN /\ Return(c, "Raised")
           /\ UNCHANGED mem
      ELSE /\ Continue(c, "save_open")
           /\ mem' = r.value

\* EmailProcessor._ingest_to_private_gpt: one POST /v1/ingest carrying content
\* and metadata.  "200": stored and answered 200; "rejected": answered with a
\* non-2xx status, nothing stored; "unreachable": connection error or timeout,
\* nothing stored; "lost": stored, but the response never arrives (timeout).
BasicResponses == {"200", "rejected", "unreachable", "lost"}

PostIngest ==
  /\ proc = "up"
  /\ pc = "ingest"
  /\ variant = "basic"
  /\ reqs' = Append(reqs, "POST /v1/ingest")
  /\ \E resp \in BasicResponses :
       LET didStore == resp \in {"200", "lost"}
           c == [cur EXCEPT !.stored = didStore, !.failed = resp # "200",
                            !.uploaded = resp = "200", !.metaOK = resp = "200"]
       IN  /\ stored' = IF didStore THEN Inc(stored, cur.hash) ELSE stored
           /\ IF resp = "200" THEN MarkProcessed(c)
              ELSE /\ Return(c, "Failed")
                   /\ UNCHANGED mem
  /\ UNCHANGED <<variant, disk, temp, proc, boot, clock, pre, recordedBefore,
                 calls, kills, scans>>

\* EnhancedEmailProcessor._ingest_to_private_gpt, first part: the health
\* probe, then the temporary file is written (open or write may raise, which
\* the except clause turns into False).
HealthResponses == {"200", "non200", "error"}

\* (mutant) the answer of the health probe is not looked at
HealthIgnored(resp) == TRUE

\* health_check: return response.status_code == 200, False on an exception
HealthCheckResult(resp) == resp = "200"

HealthCheck ==
  /\ proc = "up"
  /\ pc = "ingest"
  /\ variant = "enhanced"
  /\ reqs' = Append(reqs, "GET /health")
  /\ \E resp \in HealthResponses, wrote \in BOOLEAN :
       LET c == [cur EXCEPT !.healthy = resp = "200", !.failed = resp # "200"]
       IN  IF HealthCheckResult(resp)
           THEN IF wrote
                THEN /\ temp' = temp \cup {cur.hash}
                     /\ Continue(c, "upload")
                ELSE /\ Return(c, "Failed")
                     /\ UNCHANGED temp
           ELSE /\ wrote
                /\ Return(c, "Failed")
                /\ UNCHANGED temp
  /\ UNCHANGED <<variant, disk, proc, boot, mem, clock, stored, pre,
                 recordedBefore, calls, kills, scans>>

\* PrivateGPTClient.ingest_file, the upload: POST /v1/ingest/file.  "200id":
\* stored, answered 200 with an id; "200noid": stored, answered 200 without
\* an id; "rejected": non-200 status, nothing stored; "unreachable": the
\* request raises, nothing stored; "lost": stored, the request raises.
\* ingest_file raises on everything but a 200, and then temp_file.unlink()
\* is not reached.
UploadResponses == {"200id", "200noid", "rejected", "unreachable", "lost"}

Upload ==
  /\ proc = "up"
  /\ pc = "upload"
  /\ reqs' = Append(reqs, "POST /v1/ingest/file")
  /\ \E resp \in UploadResponses :
       LET didStore == resp \in {"200id", "200noid", "lost"}
           c == [cur EXCEPT !.stored = didStore,
                            !.failed = resp \in {"rejected", "unreachable", "lost"},
                            !.uploaded = resp = "200id"]
       IN  /\ stored' = IF didStore THEN Inc(stored, cur.hash) ELSE stored
           /\ IF resp = "200id"
              THEN /\ Continue(c, "metadata")
                   /\ UNCHANGED temp
              ELSE /\ Return(c, "Failed")
                   /\ temp' = IF resp = "200noid" THEN temp \ {cur.hash} ELSE temp
  /\ UNCHANGED <<variant, disk, proc, boot, mem, clock, pre,
                 recordedBefore, calls, kills, scans>>

\* if file_id: self.update_metadata(file_id, metadata); return file_id
\* The bool update_metadata returns is not looked at.
IngestFileResult(file_id, metadata_ok) == file_id

\* PrivateGPTClient.update_metadata: PUT /v1/ingest/{id}/metadata, then the
\* rest of ingest_file and of _ingest_to_private_gpt (unlink, if file_id).
MetadataResponses == {"200", "rejected", "error"}

UpdateMetadata ==
  /\ proc = "up"
  /\ pc = "metadata"
  /\ reqs' = Append(reqs, "PUT /v1/ingest/id/metadata")
  /\ temp' = temp \ {cur.hash}
  /\ \E resp \in MetadataResponses :
       LET c == [cur EXCEPT !.failed = resp # "200", !.metaOK = resp = "200"]
       IN  IF IngestFileResult(TRUE, resp = "200") THEN MarkProcessed(c)
           ELSE /\ Return(c, "Failed")
                /\ UNCHANGED mem
  /\ UNCHANGED <<variant, disk, proc, boot, clock, stored, pre, recordedBefore,
                 calls, kills, scans>>

\* _save_processed_emails, open(self.processed_file, 'w'): the file is
\* truncated, or open raises OSError and the file stays as it was.
SaveOpen ==
  /\ proc = "up"
  /\ pc = "save_open"
  /\ \E ok \in BOOLEAN :
       IF ok
       THEN /\ disk' = FileInvalid
            /\ Continue(cur, "save_write")
       ELSE /\ Return(cur, "Raised")
            /\ UNCHANGED disk
  /\ UNCHANGED <<variant, temp, proc, boot, mem, clock, stored, reqs,
                 pre, recordedBefore, calls, kills, scans>>

\* What _save_processed_emails leaves in the file once json.dump and close
\* are through
Saved(index) == FileJson(index)

\* _save_processed_emails, json.dump and close: the whole index is written
\* and process_email_file returns True, or a write raises OSError and the
\* file stays truncated.
SaveWrite ==
  /\ proc = "up"
  /\ pc = "save_write"
  /\ \E ok \in BOOLEAN :
       IF ok
       THEN /\ disk' = Saved(mem)
            /\ Return(cur, "Processed")
       ELSE /\ Return(cur, "Raised")
            /\ UNCHANGED disk
  /\ UNCHANGED <<variant, temp, proc, boot, mem, clock, stored, reqs,
                 pre, recordedBefore, calls, kills, scans>>

\* --------------------------------------------------------- process_directory

\* process_directory begins: processed_count = 0, directory.rglob('*')
ScanStart ==
  /\ proc = "up"
  /\ pc = "idle"
  /\ ~scan.active
  /\ scans < MaxScans
  /\ scans' = scans + 1
  /\ scan' = [NoScan EXCEPT !.active = TRUE, !.todo = Paths]
  /\ UNCHANGED <<variant, disk, temp, proc, boot, mem, pc, cur, clock, stored,
                 reqs, pre, last, prev, unrecorded, recorded,
                 recordedBefore, calls, kills>>

\* a file whose suffix is not an email extension is passed over
ScanSkip(p) ==
  /\ proc = "up"
  /\ pc = "idle"
  /\ scan.active
  /\ p \in scan.todo
  /\ ~IsEmailFile(p)
  /\ scan' = [scan EXCEPT !.todo = @ \ {p}]
  /\ UNCHANGED <<variant, disk, temp, proc, boot, mem, pc, cur, clock, stored,
                 reqs, pre, last, prev, unrecorded, recorded,
                 recordedBefore, calls, kills, scans>>

\* return processed_count
ScanEnd ==
  /\ proc = "up"
  /\ pc = "idle"
  /\ scan.active
  /\ scan.todo = {}
  /\ scan' = [scan EXCEPT !.active = FALSE, !.returned = TRUE]
  /\ UNCHANGED <<variant, disk, temp, proc, boot, mem, pc, cur, clock, stored,
                 reqs, pre, last, prev, unrecorded, recorded,
                 recordedBefore, calls, kills, scans>>

\* Whether the request the call is about to send carries a timeout:
\* requests.post(..., timeout=30) in EmailProcessor; session.get, session.post
\* and session.put of PrivateGPTClient are called without one, and requests
\* then waits for the answer without limit.
HasTimeout(v, at) ==
  CASE at = "ingest" -> v = "basic"
    [] at = "upload" -> FALSE
    [] at = "metadata" -> FALSE
    [] OTHER -> TRUE

RequestAt(at) ==
  CASE at = "ingest" -> "GET /health"
    [] at = "upload" -> "POST /v1/ingest/file"
    [] OTHER -> "PUT /v1/ingest/id/metadata"

\* The remote service takes the request and never answers.  With a timeout
\* the request raises after it (the answers "unreachable" and "error" of the
\* actions above); without one the call waits in the request from then on.
Unanswered ==
  /\ proc = "up"
  /\ pc \in {"ingest", "upload", "metadata"}
  /\ ~HasTimeout(variant, pc)
  /\ reqs' = Append(reqs, RequestAt(pc))
  /\ Continue(cur, "blocked")
  /\ UNCHANGED <<variant, disk, temp, proc, boot, mem, clock, stored, pre,
                 recordedBefore, calls, kills, scans>>

\* the steps inside process_email_file, after the duplicate check
Step ==
  \/ PostIngest
  \/ HealthCheck
  \/ Upload
  \/ UpdateMetadata
  \/ Unanswered
  \/ SaveOpen
  \/ SaveWrite

\* Single-file mode and watch events: direct calls only
Next ==
  /\ \/ Start
     \/ Kill
     \/ \E p \in Paths : DirectCall(p)
     \/ Step
  /\ UNCHANGED <<pvars, wvars>>

Spec == Init /\ [][Next]_vars

\* Directory scans: every call is made by process_directory
ScanNext ==
  /\ \/ Start
     \/ Kill
     \/ ScanStart
     \/ \E p \in Paths : ScanCall(p)
     \/ \E p \in Paths : ScanSkip(p)
     \/ ScanEnd
     \/ Step
  /\ UNCHANGED <<pvars, wvars>>

ScanSpec == Init /\ [][ScanNext]_vars

\* ------------------------------------------- the extractor's functions alone

\* longest subject and sender handed to _generate_email_hash
MaxField == 1

\* the strings over alphabet of length at most n
RECURSIVE StringsUpTo(_, _)
StringsUpTo(alphabet, n) ==
  IF n = 0 THEN {<<>>}
  ELSE LET shorter == StringsUpTo(alphabet, n - 1)
       IN  shorter \cup {Append(t, c) : t \in shorter, c \in alphabet}

\* subjects and senders: header values, in which "|" may occur
FieldStrings == StringsUpTo({"a", "|"}, MaxField)
Triples == [subject : FieldStrings, sender : FieldStrings, date : DateTimes]

\* two messages whose fingerprints are compared
HashInputs == {[fn |-> "hash", x |-> x, y |-> y] : x \in Triples, y \in Triples}

\* "[No text content found]"
Sentinel ==
  <<"[", "N", "o", " ", "t", "e", "x", "t", " ", "c", "o", "n", "t", "e", "n", "t", " ", "f", "o", "u", "n", "d", "]">>

\* re.sub('<[^<]+?>', '', s).  MatchEnd: where the match that begins at the
\* first character of s ends, 0 when there is none: "<", then as few
\* characters other than "<" as possible but at least one, then ">".
MatchEnd(s) ==
  LET ends == {j \in 3..Len(s) : s[j] = ">" /\ \A k \in 2..(j - 1) : s[k] # "<"}
  IN  IF s # <<>> /\ Head(s) = "<" /\ ends # {}
      THEN CHOOSE j \in ends : \A k \in ends : j <= k
      ELSE 0

RECURSIVE StripTags(_)
StripTags(s) ==
  IF s = <<>> THEN <<>>
  ELSE IF MatchEnd(s) > 0 THEN StripTags(SubSeq(s, MatchEnd(s) + 1, Len(s)))
  ELSE <<Head(s)>> \o StripTags(Tail(s))

\* str.strip()
RECURSIVE LStrip(_)
LStrip(s) == IF s # <<>> /\ Head(s) = " " THEN LStrip(Tail(s)) ELSE s
RECURSIVE RStrip(_)
RStrip(s) ==
  IF s # <<>> /\ s[Len(s)] = " " THEN RStrip(SubSeq(s, 1, Len(s) - 1)) ELSE s
StripSpace(s) == LStrip(RStrip(s))

\* A part of a message: a leaf with a content type and a content, or a
\* multipart container with its sub-parts.  A part may carry a file name
\* (Content-Disposition or Content-Type parameter); <<>> when it has none.
Leaf(type, content) ==
  [type |-> type, content |-> content, kids |-> <<>>, filename |-> <<>>]
Container(kids) ==
  [type |-> "multipart", content |-> <<>>, kids |-> kids, filename |-> <<>>]
Attachment(content, filename) ==
  [type |-> "other", content |-> content, kids |-> <<>>, filename |-> filename]

\* msg.is_multipart()
IsMultipart(msg) == msg.type = "multipart"

\* msg.walk(): the part itself, then its sub-parts, depth first
RECURSIVE Walk(_)
RECURSIVE WalkAll(_)
Walk(part) == <<part>> \o WalkAll(part.kids)
WalkAll(parts) ==
  IF parts = <<>> THEN <<>> ELSE Walk(Head(parts)) \o WalkAll(Tail(parts))

\* for part in walk: if part.get_content_type() == type: ...; break
HasPart(walk, type) == \E i \in 1..Len(walk) : walk[i].type = type
FirstPart(walk, type) ==
  walk[CHOOSE i \in 1..Len(walk) :
         walk[i].type = type /\ \A k \in 1..(i - 1) : walk[k].type # type]

\* (mutant) the empty body is returned as it is
OrSentinelNever(body) == body

\* if not body_text: body_text = "[No text content found]"
OrSentinel(body) == IF body = <<>> THEN Sentinel ELSE body

\* the body_text of _extract_email_content
ExtractBody(msg) ==
  LET walk == Walk(msg)
      plain == IF HasPart(walk, "text/plain")
               THEN FirstPart(walk, "text/plain").content ELSE <<>>
      html == IF HasPart(walk, "text/html")
              THEN StripTags(FirstPart(walk, "text/html").content) ELSE <<>>
      body_text ==
        IF IsMultipart(msg)
        THEN IF plain # <<>> THEN plain ELSE html
        ELSE IF msg.type = "text/plain" THEN msg.content
        ELSE IF msg.type = "text/html" THEN StripTags(msg.content)
        ELSE <<>>
  IN  OrSentinel(StripSpace(body_text))

\* sub-parts of the root of a multipart message
MaxKids == 2
\* longest HTML content of a message that is one HTML part
MaxHtml == 6

PlainContents == {<<>>, <<" ">>, <<" ", "a">>}
HtmlContents == {<<"<", "b", ">">>, <<"<", "b", ">", "c", " ">>}
Leaves ==
  {Leaf("text/plain", c) : c \in PlainContents}
    \cup {Leaf("text/html", c) : c \in HtmlContents}
    \cup {Leaf("other", <<>>)}
Nested == Leaves \cup {Container(<<l>>) : l \in Leaves}
RECURSIVE KidsUpTo(_)
KidsUpTo(n) ==
  IF n = 0 THEN {<<>>}
  ELSE KidsUpTo(n - 1) \cup {Append(ks, k) : ks \in KidsUpTo(n - 1), k \in Nested}
Multiparts == {Container(ks) : ks \in KidsUpTo(MaxKids)}
HtmlOnly == {Leaf("text/html", c) : c \in StringsUpTo({"<", ">", "i"}, MaxHtml)}

BodyInputs == {[fn |-> "body", msg |-> m] : m \in Leaves \cup Multiparts \cup HtmlOnly}

\* needle in haystack, for str
In(needle, haystack) ==
  \E i \in 0..(Len(haystack) - Len(needle)) :
    SubSeq(haystack, i + 1, i + Len(needle)) = needle

\* priority_indicators of _determine_priority, in the order of the dict
PriorityIndicators ==
  << [priority |-> "high",
      indicators |-> <<<<"u", "r", "g", "e", "n", "t">>,
                       <<"a", "s", "a", "p">>,
                       <<"i", "m", "p", "o", "r", "t", "a", "n", "t">>,
                       <<"c", "r", "i", "t", "i", "c", "a", "l">>,
                       <<"e", "m", "e", "r", "g", "e", "n", "c", "y">>>>],
     [priority |-> "medium",
      indicators |-> <<<<"u", "p", "d", "a", "t", "e">>,
                       <<"n", "o", "t", "i", "f", "i", "c", "a", "t", "i", "o", "n">>,
                       <<"r", "e", "m", "i", "n", "d", "e", "r">>>>],
     [priority |-> "low",
      indicators |-> <<<<"n", "e", "w", "s", "l", "e", "t", "t", "e", "r">>,
                       <<"p", "r", "o", "m", "o", "t", "i", "o", "n">>,
                       <<"m", "a", "r", "k", "e", "t", "i", "n", "g">>>>] >>

\* whether one of the indicators of tier t occurs in subject or sender
TierMatches(t, subject_lower, sender_lower) ==
  \E i \in 1..Len(PriorityIndicators[t].indicators) :
    \/ In(PriorityIndicators[t].indicators[i], subject_lower)
    \/ In(PriorityIndicators[t].indicators[i], sender_lower)

\* (mutant) the last tier that matches is returned
LastTier(matching) == CHOOSE t \in matching : \A u \in matching : u <= t

\* for priority, indicators in priority_indicators.items(): the first tier
\* that matches returns
FirstTier(matching) == CHOOSE t \in matching : \A u \in matching : t <= u

\* _determine_priority
DeterminePriority(subject, sender) ==
  LET matching == {t \in 1..Len(PriorityIndicators) :
                     TierMatches(t, ToLower(subject), ToLower(sender))}
  IN  IF matching = {} THEN "normal"
      ELSE PriorityIndicators[FirstTier(matching)].priority

\* re.findall(r'\[([^\]]+)\]', s): the first "]" after a "[" closes it; the
\* match needs one character at least between them
FirstClose(s) ==
  IF \E j \in 2..Len(s) : s[j] = "]"
  THEN CHOOSE j \in 2..Len(s) : s[j] = "]" /\ \A k \in 2..(j - 1) : s[k] # "]"
  ELSE 0

RECURSIVE FindBrackets(_)
FindBrackets(s) ==
  IF s = <<>> THEN <<>>
  ELSE IF Head(s) = "[" /\ FirstClose(s) > 2
  THEN <<SubSeq(s, 2, FirstClose(s) - 1)>>
         \o FindBrackets(SubSeq(s, FirstClose(s) + 1, Len(s)))
  ELSE FindBrackets(Tail(s))

\* the longest run of characters other than white space at the head of s
RECURSIVE Word(_)
Word(s) == IF s = <<>> \/ Head(s) = " " THEN <<>> ELSE <<Head(s)>> \o Word(Tail(s))

\* re.findall(key + r'\s*([^\s]+)', s, re.IGNORECASE)
RECURSIVE FindKeyed(_, _)
FindKeyed(key, s) ==
  IF Len(s) < Len(key) THEN <<>>
  ELSE LET rest == LStrip(SubSeq(s, Len(key) + 1, Len(s)))
       IN  IF ToLower(SubSeq(s, 1, Len(key))) = key /\ Word(rest) # <<>>
           THEN <<Word(rest)>> \o FindKeyed(key, SubSeq(rest, Len(Word(rest)) + 1, Len(rest)))
           ELSE FindKeyed(key, Tail(s))

LabelKey == <<"l", "a", "b", "e", "l", ":">>
CategoryKey == <<"c", "a", "t", "e", "g", "o", "r", "y", ":">>
Automated == <<"a", "u", "t", "o", "m", "a", "t", "e", "d">>
Newsletter == <<"n", "e", "w", "s", "l", "e", "t", "t", "e", "r">>
Urgent == <<"u", "r", "g", "e", "n", "t">>
NoReply == <<"n", "o", "r", "e", "p", "l", "y">>
Asap == <<"a", "s", "a", "p">>

\* the list labels of _extract_labels before it is returned
BuildLabels(subject, sender) ==
  FindBrackets(subject) \o FindKeyed(LabelKey, subject) \o FindKeyed(CategoryKey, subject)
    \o (IF In(NoReply, ToLower(sender)) THEN <<Automated>> ELSE <<>>)
    \o (IF In(Newsletter, ToLower(sender)) \/ In(Newsletter, ToLower(subject))
        THEN <<Newsletter>> ELSE <<>>)
    \o (IF In(Urgent, ToLower(subject)) \/ In(Asap, ToLower(subject))
        THEN <<Urgent>> ELSE <<>>)

\* set(labels)
Range(list) == {list[i] : i \in 1..Len(list)}

\* (mutant) the list is returned as it was built
AsBuilt(labels) == {labels}

\* list(set(labels)): the elements of the set once each, in an order that
\* is not determined
ListOfSet(labels) ==
  {l \in [1..Cardinality(Range(labels)) -> Range(labels)] :
     \A i, j \in 1..Cardinality(Range(labels)) : i # j => l[i] # l[j]}

\* the lists _extract_labels may return
ExtractLabels(subject, sender) == ListOfSet(BuildLabels(subject, sender))

\* words of the subjects handed to _determine_priority and _extract_labels
Words ==
  {<<"U", "R", "G", "E", "N", "T", ":">>,
   <<"a", "s", "a", "p">>,
   <<"U", "p", "d", "a", "t", "e">>,
   <<"N", "e", "w", "s", "l", "e", "t", "t", "e", "r">>,
   <<"h", "i">>,
   <<"[", "U", "r", "g", "e", "n", "t", "]">>,
   <<"[", "u", "r", "g", "e", "n", "t", "]">>,
   <<"[", "B", "i", "l", "l", "i", "n", "g", "]">>,
   <<"L", "a", "b", "e", "l", ":">>,
   <<"C", "a", "t", "e", "g", "o", "r", "y", ":", "x">>,
   <<"[", "]">>,
   <<"[", "a">>}
\* most words of a subject
MaxWords == 2

RECURSIVE Phrases(_)
Phrases(n) ==
  IF n = 0 THEN {<<>>}
  ELSE Phrases(n - 1)
         \cup {IF ph = <<>> THEN w ELSE ph \o <<" ">> \o w : ph \in Phrases(n - 1), w \in Words}

BillingExample ==
  <<"[", "U", "r", "g", "e", "n", "t", "]", " ", "[", "B", "i", "l", "l", "i", "n", "g", "]", " ", "P", "l", "e", "a", "s", "e", " ", "r", "e", "v", "i", "e", "w">>
UrgentExample ==
  <<"U", "R", "G", "E", "N", "T", ":", " ", "s", "y", "s", "t", "e", "m", " ", "d", "o", "w", "n">>
NewsletterExample ==
  <<"W", "e", "e", "k", "l", "y", " ", "N", "e", "w", "s", "l", "e", "t", "t", "e", "r">>

Subjects == Phrases(MaxWords) \cup {BillingExample, UrgentExample, NewsletterExample}
Senders ==
  {<<"a", "@", "b">>,
   <<"N", "o", "R", "e", "p", "l", "y", "@", "b">>,
   <<"n", "e", "w", "s", "l", "e", "t", "t", "e", "r", "@", "b">>,
   <<"r", "e", "m", "i", "n", "d", "e", "r", "@", "b">>}

PriorityInputs ==
  {[fn |-> "priority", subject |-> su, sender |-> se] : su \in Subjects, se \in Senders}
LabelInputs ==
  {[fn |-> "labels", subject |-> su, sender |-> se] : su \in Subjects, se \in Senders}

\* msg.get_payload(): the list of sub-parts of a multipart message, the
\* payload string of any other
GetPayload(msg) == IF IsMultipart(msg) THEN msg.kids ELSE msg.content

\* "has_attachments": bool(msg.get_payload())
HasAttachments(msg) == GetPayload(msg) # <<>>

\* "attachment_count": len([p for p in msg.walk() if p.get_filename()])
AttachmentCount(msg) ==
  LET walk == Walk(msg)
  IN  Cardinality({i \in 1..Len(walk) : walk[i].filename # <<>>})

\* messages with and without attached files
AttachmentParts ==
  {Leaf("text/plain", <<>>), Leaf("text/plain", <<"a">>),
   Attachment(<<>>, <<"f">>), Attachment(<<"a">>, <<"f">>)}
RECURSIVE PartsUpTo(_)
PartsUpTo(n) ==
  IF n = 0 THEN {<<>>}
  ELSE PartsUpTo(n - 1)
         \cup {Append(ks, k) : ks \in PartsUpTo(n - 1), k \in AttachmentParts}
AttachmentInputs ==
  {[fn |-> "attachments", msg |-> m] :
     m \in AttachmentParts \cup {Container(ks) : ks \in PartsUpTo(MaxKids)}}

PureInputs ==
  HashInputs \cup BodyInputs \cup PriorityInputs \cup LabelInputs
    \cup AttachmentInputs

\* No processor runs; one function of the extractor is called on its own.
PureInit ==
  /\ variant = "basic"
  /\ disk = FileAbsent
  /\ temp = {}
  /\ proc = "down"
  /\ boot = "none"
  /\ mem = Dict(EmptyDict)
  /\ pc = "idle"
  /\ cur = NoCall
  /\ clock = 0
  /\ stored = EmptyDict
  /\ reqs = <<>>
  /\ pre = [mem |-> Dict(EmptyDict), disk |-> disk, dup |-> FALSE, known |-> FALSE,
            live |-> FALSE]
  /\ last = NoSummary
  /\ prev = NoPrevious
  /\ unrecorded = 0
  /\ recorded = {}
  /\ recordedBefore = {}
  /\ scan = NoScan
  /\ calls = 0
  /\ kills = 0
  /\ scans = 0
  /\ arg \in PureInputs
  /\ res = NoRes
  /\ main = "new"
  /\ obs = "none"
  /\ queue = <<>>
  /\ handler = NoHandler
  /\ signals = 0
  /\ aborted = "none"

\* the variables of the processor and of the watcher
procvars ==
  <<variant, disk, temp, proc, boot, mem, pc, cur, clock, stored, reqs,
    pre, last, prev, unrecorded, recorded, recordedBefore, scan, calls, kills,
    scans>>

\* _generate_email_hash called on two messages
CallHash ==
  /\ arg.fn = "hash"
  /\ res = NoRes
  /\ res' = [fn |-> "hash",
             x |-> GenerateEmailHash(arg.x.subject, arg.x.sender, arg.x.date),
             y |-> GenerateEmailHash(arg.y.subject, arg.y.sender, arg.y.date)]
  /\ UNCHANGED <<arg, procvars, wvars>>

\* the body extraction of _extract_email_content
CallExtractBody ==
  /\ arg.fn = "body"
  /\ res = NoRes
  /\ res' = [fn |-> "body", body |-> ExtractBody(arg.msg)]
  /\ UNCHANGED <<arg, procvars, wvars>>

\* _determine_priority
CallDeterminePriority ==
  /\ arg.fn = "priority"
  /\ res = NoRes
  /\ res' = [fn |-> "priority", priority |-> DeterminePriority(arg.subject, arg.sender)]
  /\ UNCHANGED <<arg, procvars, wvars>>

\* _extract_labels
CallExtractLabels ==
  /\ arg.fn = "labels"
  /\ res = NoRes
  /\ \E l \in ExtractLabels(arg.subject, arg.sender) :
       res' = [fn |-> "labels", labels |-> l]
  /\ UNCHANGED <<arg, procvars, wvars>>

\* the attachment fields of EnhancedEmailProcessor._extract_email_content
CallAttachments ==
  /\ arg.fn = "attachments"
  /\ res = NoRes
  /\ res' = [fn |-> "attachments",
             has_attachments |-> HasAttachments(arg.msg),
             attachment_count |-> AttachmentCount(arg.msg)]
  /\ UNCHANGED <<arg, procvars, wvars>>

PureNext ==
  \/ CallHash
  \/ CallExtractBody
  \/ CallDeterminePriority
  \/ CallExtractLabels
  \/ CallAttachments

PureSpec == PureInit /\ [][PureNext]_vars

\* -------------------------------------------------------- DirectoryWatcher

\* events the observer delivers in one behaviour
MaxEvents == 1
\* interrupt signals (Ctrl+C) in one behaviour
MaxSignals == 1

\* DirectoryWatcher.__init__ builds an EmailProcessor
WatchInit == Init /\ variant = "basic"

\* The process ends: memory is lost, the files stay as they are.
Exit ==
  /\ proc' = "down"
  /\ main' = "exit"
  /\ mem' = Dict(EmptyDict)
  /\ pc' = "idle"
  /\ cur' = NoCall
  /\ last' = NoSummary
  /\ prev' = NoPrevious
  /\ scan' = NoScan
  /\ unrecorded' = IF cur.stored THEN unrecorded + 1 ELSE unrecorded
  /\ pre' = [pre EXCEPT !.live = FALSE]
  /\ UNCHANGED <<variant, disk, temp, boot, clock, stored, reqs,
                 recorded, recordedBefore, calls, kills, scans>>

\* DirectoryWatcher.__init__
WatchConstruct ==
  /\ main = "new"
  /\ Start
  /\ UNCHANGED <<pvars, wvars>>

\* (mutant) the observer is started before the existing files are processed
ObserverStartedFirst(o) == "running"

\* start_watching: while the existing files are processed the observer is
\* what it was: not created yet
ObserverDuringScan(o) == o

\* run_continuously enters start_watching: process_directory begins
StartWatching ==
  /\ main = "new"
  /\ ScanStart
  /\ main' = "scan"
  /\ obs' = ObserverDuringScan(obs)
  /\ UNCHANGED <<pvars, queue, handler, signals, aborted>>

WatchScanCall(p) ==
  /\ main = "scan"
  /\ ScanCall(p)
  /\ UNCHANGED <<pvars, wvars>>

WatchScanSkip(p) ==
  /\ main = "scan"
  /\ ScanSkip(p)
  /\ UNCHANGED <<pvars, wvars>>

\* process_directory returned: the observer is created, scheduled and
\* started; the main thread goes to sleep in the loop of run_continuously
ObserverStart ==
  /\ main = "scan"
  /\ ScanEnd
  /\ main' = "sleep"
  /\ obs' = "running"
  /\ UNCHANGED <<pvars, queue, handler, signals, aborted>>

\* an exception left process_directory: start_watching is called outside
\* the try of run_continuously, the exception ends the process
ScanException ==
  /\ main = "scan"
  /\ pc = "idle"
  /\ ~scan.active
  /\ ~scan.returned
  /\ Exit
  /\ UNCHANGED <<pvars, obs, queue, handler, signals, aborted>>

\* The events the observer delivers: something (a file, or a directory, whose
\* name may end like an email file's) is created, modified or deleted at
\* src_path, or moved from src_path to dest_path.
Event(type, is_directory, src_path, dest_path) ==
  [type |-> type, is_directory |-> is_directory, src_path |-> src_path,
   dest_path |-> dest_path]

EventPaths == {"a.eml", "d.EML", "n.txt"}

Events ==
  {Event("created", d, p, "") : d \in BOOLEAN, p \in EventPaths}
  \cup {Event("moved", d, "n.txt", p) : d \in BOOLEAN, p \in EventPaths}
  \cup {Event("moved", FALSE, "a.eml", "n.txt"),
        Event("modified", FALSE, "a.eml", ""),
        Event("deleted", FALSE, "a.eml", "")}

\* (mutant) on_moved looks at the path the file was moved from
SrcPath(event) == event.src_path

\* on_created: Path(event.src_path); on_moved: Path(event.dest_path)
FilePath(event) ==
  IF event.type = "moved" THEN event.dest_path ELSE event.src_path

\* EmailFileHandler defines on_created and on_moved; every other event goes
\* to the handlers it inherits, which do nothing.  Both go on only
\* if not event.is_directory and for a suffix in self.email_extensions.
Handles(event) ==
  /\ event.type \in {"created", "moved"}
  /\ ~event.is_directory
  /\ ToLower(Suffix(FilePath(event))) \in EmailExtensions

\* something happens in the watched tree: the observer queues the event
FileEvent(e) ==
  /\ obs = "running"
  /\ calls + Len(queue) + (IF handler.at = "grace" THEN 1 ELSE 0) < MaxEvents
  /\ queue' = Append(queue, e)
  /\ UNCHANGED <<procvars, pvars, main, obs, handler, signals, aborted>>

\* the observer thread takes the next event and calls the handler's method
\* for it: on_created / on_moved go to sleep for an email file and return
\* for anything else
Dispatch ==
  /\ obs = "running"
  /\ handler.at = "idle"
  /\ queue # <<>>
  /\ queue' = Tail(queue)
  /\ handler' = IF Handles(Head(queue))
                THEN [at |-> "grace", path |-> FilePath(Head(queue))]
                ELSE NoHandler
  /\ UNCHANGED <<procvars, pvars, main, obs, signals, aborted>>

\* on_created / on_moved after time.sleep(1): process_email_file is called
HandlerCall ==
  /\ handler.at = "grace"
  /\ ProcessBegin(handler.path)
  /\ calls' = calls + 1
  /\ handler' = [handler EXCEPT !.at = "call"]
  /\ UNCHANGED <<pvars, main, obs, queue, signals, aborted>>

\* process_email_file is back in the handler: the handler logs and returns,
\* or the exception goes on to the observer thread, which the library lets
\* end or go on
HandlerReturn ==
  /\ handler.at = "call"
  /\ pc = "idle"
  /\ handler' = NoHandler
  /\ \E survives \in BOOLEAN :
       obs' = IF last.outcome = "Raised" /\ ~survives THEN "ended" ELSE obs
  /\ UNCHANGED <<procvars, pvars, main, queue, signals, aborted>>

\* the observer thread, asked to stop, leaves its loop once the handler it
\* was in has returned
ObserverExit ==
  /\ obs = "stopping"
  /\ handler.at = "idle"
  /\ obs' = "ended"
  /\ UNCHANGED <<procvars, pvars, main, queue, handler, signals, aborted>>

\* KeyboardInterrupt in the main thread while it sleeps in the loop of
\* run_continuously: finally, stop_watching, observer.stop()
SignalInLoop ==
  /\ main = "sleep"
  /\ signals < MaxSignals
  /\ signals' = signals + 1
  /\ main' = "join"
  /\ obs' = IF obs = "running" THEN "stopping" ELSE obs
  /\ UNCHANGED <<procvars, pvars, queue, handler, aborted>>

\* observer.join() returns, stop_watching and run_continuously return, the
\* process ends
JoinReturns ==
  /\ main = "join"
  /\ obs = "ended"
  /\ Exit
  /\ UNCHANGED <<pvars, obs, queue, handler, signals, aborted>>

\* KeyboardInterrupt in the main thread while it is in start_watching
\* (process_directory is not inside the try of run_continuously, and no
\* except clause on the way catches KeyboardInterrupt), or while it waits in
\* observer.join(): the exception ends the process, and with it the call in
\* flight, wherever it is
SignalEndsProcess ==
  /\ main \in {"scan", "join"}
  /\ signals < MaxSignals
  /\ signals' = signals + 1
  /\ aborted' = IF pc # "idle" THEN pc ELSE aborted
  /\ Exit
  /\ handler' = NoHandler
  /\ UNCHANGED <<pvars, obs, queue>>

WatchNext ==
  \/ WatchConstruct
  \/ StartWatching
  \/ \E p \in Paths : WatchScanCall(p)
  \/ \E p \in Paths : WatchScanSkip(p)
  \/ ObserverStart
  \/ ScanException
  \/ \E e \in Events : FileEvent(e)
  \/ Dispatch
  \/ HandlerCall
  \/ HandlerReturn
  \/ ObserverExit
  \/ SignalInLoop
  \/ JoinReturns
  \/ SignalEndsProcess
  \/ Step /\ UNCHANGED <<pvars, wvars>>

WatchSpec == WatchInit /\ [][WatchNext]_vars

\* The steps of the main thread: __init__, start_watching with the initial
\* process_directory, and the end of stop_watching.  A thread that can go on
\* is scheduled, so its steps are weakly fair; file events and signals come
\* from outside and need never come.
MainThread ==
  \/ WatchConstruct
  \/ StartWatching
  \/ \E p \in Paths : WatchScanCall(p)
  \/ \E p \in Paths : WatchScanSkip(p)
  \/ ObserverStart
  \/ ScanException
  \/ JoinReturns
  \/ main = "scan" /\ Step /\ UNCHANGED <<pvars, wvars>>

\* The steps of the observer thread: dispatch, the handler with its call of
\* process_email_file, and the thread's end
ObserverThread ==
  \/ Dispatch
  \/ HandlerCall
  \/ HandlerReturn
  \/ ObserverExit
  \/ handler.at = "call" /\ Step /\ UNCHANGED <<pvars, wvars>>

\* The watcher with both threads scheduled
WatchLiveSpec ==
  WatchInit /\ [][WatchNext]_vars /\ WF_vars(MainThread) /\ WF_vars(ObserverThread)

\* ------------------------------------------------------------------ claims

\* the mapping an index file stands for: what a processor started now loads
PersistedIndex(file) == LoadProcessedEmails(file).value

C2_SecondCallSkipped ==
  (pc = "idle" /\ prev.outcome = "Processed" /\ last.path = prev.path
     /\ last.outcome \in {"Processed", "Skipped", "Failed"} /\ ~last.failed)
  => (last.outcome = "Skipped" /\ ~last.stored)

\* C3: a call whose fingerprint is in the index when it begins sends no
\* request to the remote service, leaves the in-memory index and the index
\* file as they were, and has ended.
C3_DuplicateTouchesNothing ==
  (pre.live /\ pre.dup) => (reqs = <<>> /\ mem = pre.mem /\ disk = pre.disk /\ pc = "idle")

C3_Witness ==
  pre.live /\ pre.dup /\ pc = "idle" /\ last.outcome = "Skipped" /\ stored # EmptyDict

\* the last call of this process has returned (no exception escaped it)
Returned == pre.live /\ pc = "idle" /\ last.outcome \in {"Processed", "Skipped", "Failed"}

\* C4: a call that returned and one of whose remote requests ended in an
\* error, a timeout or a non-2xx status returned Failed and left the index,
\* in memory and on disk, as it was before the call (stated for a
\* ProcessedIndex that is a mapping).
C4_RemoteFailureFails ==
  (Returned /\ last.failed /\ pre.mem.kind = "object")
  => (last.outcome = "Failed" /\ mem = pre.mem /\ disk = pre.disk)

\* C5: a call returns Processed only if the upload and the metadata
\* attachment both succeeded; a call whose upload succeeded and whose metadata
\* update failed returns Failed and its fingerprint is not in the index
\* (stated for a ProcessedIndex that is a mapping).
C5_ProcessedNeedsMetadata ==
  (Returned /\ pre.mem.kind = "object")
  => /\ last.outcome = "Processed" => (last.uploaded /\ last.metaOK)
     /\ (last.uploaded /\ ~last.metaOK)
          => (last.outcome = "Failed" /\ Contains(mem, last.hash) # "yes")

\* C6: between calls the index file stands for exactly the in-memory index,
\* and after a call that returned Processed the in-memory index holds the
\* call's fingerprint and the file holds the in-memory index.
C6_WriteThrough ==
  (proc = "up" /\ pc = "idle")
  => /\ PersistedIndex(disk) = mem
     /\ (pre.live /\ last.outcome = "Processed")
          => (Contains(mem, last.hash) = "yes" /\ disk = FileJson(mem))

\* C7: at every moment the index file holds the complete index it held when
\* the current/last call began, or a complete index that extends it.
Extends(new, old) ==
  /\ new.kind = "object"
  /\ old.kind = "object"
  /\ DOMAIN old.idx \subseteq DOMAIN new.idx
  /\ \A k \in DOMAIN old.idx : new.idx[k] = old.idx[k]

C7_IndexFileNeverTorn ==
  \/ disk = pre.disk
  \/ (disk.state = "json" /\ Extends(disk.json, pre.mem))

\* C8: the constructor never fails, and a processor that is up holds a
\* mapping; it holds the empty mapping when the file it loaded was no JSON
\* object.
C8_LoadNeverFatal ==
  /\ boot # "fatal"
  /\ proc = "up" => mem.kind = "object"

\* C9: a call of a processor for a fingerprint for which Processed was
\* returned before that processor started sends no request to the remote
\* service and ends Skipped.
C9_DedupSurvivesRestart ==
  (pre.live /\ pre.known)
  => (reqs = <<>> /\ pc = "idle" /\ last.outcome = "Skipped")

\* C10 (as stated): the count process_directory returns is the number of
\* calls that ended Processed.
C10_CountIsProcessed == scan.returned => scan.count = scan.processed

\* C10 (amended): the count process_directory returns is the number of calls
\* that ended Processed or Skipped; calls that ended Failed do not count.
C10_CountIsProcessedPlusSkipped ==
  scan.returned => scan.count = scan.processed + scan.skipped

C10_Witness ==
  scan.returned /\ scan.processed > 0 /\ scan.skipped > 0 /\ scan.failed > 0

\* process_directory has ended: it returned its count, or an exception left it
ScanRaised == ~scan.active /\ ~scan.returned /\ scan.todo # {}
ScanEnded == scan.returned \/ ScanRaised

\* the files of the tree whose extension, in lower case, is .eml, .mbox or .elmx
EmailFiles == {"a.eml", "b.eml", "c.eml", "d.EML"}

\* the process_email_file calls the scan has made and that returned
ScanCalls == scan.processed + scan.skipped + scan.failed

\* C11: when process_directory has ended, it has called process_email_file
\* once for each of the N files with an email extension (in any letter case)
\* and for no other file, and its count is at most N (stated for a
\* ProcessedIndex that is a mapping).
C11_EveryEmailFileOnce ==
  (ScanEnded /\ mem.kind = "object")
  => (ScanCalls = Cardinality(EmailFiles) /\ scan.count <= Cardinality(EmailFiles))

\* C11, for the scans that returned
C11_ReturnedScanCalledAll ==
  scan.returned
  => (ScanCalls = Cardinality(EmailFiles) /\ scan.count <= Cardinality(EmailFiles))

\* C12: no failure while processing one file makes process_directory end
\* before it has gone through every file of the tree: an exception never
\* leaves it (stated for a ProcessedIndex that is a mapping).
C12_ScanIsolatesFailures == mem.kind = "object" => ~ScanRaised

\* C12, for the failures process_email_file turns into False (unparsable file,
\* remote error): the scan goes on with the files that remain
C12_FailedFileDoesNotEndScan ==
  (scan.failed > 0 /\ ~scan.active /\ mem.kind = "object" /\ last.outcome # "Raised")
  => (scan.todo = {})
\* C13: two messages that differ in subject, sender or date get different
\* fingerprints (the digest being injective).
C13_FingerprintInjective ==
  (res.fn = "hash" /\ arg.x # arg.y) => res.x # res.y

\* C13, for subjects and senders in which the delimiter "|" does not occur
NoBar(s) == \A i \in 1..Len(s) : s[i] # "|"
C13_InjectiveWithoutDelimiter ==
  (res.fn = "hash" /\ arg.x # arg.y
     /\ NoBar(arg.x.subject) /\ NoBar(arg.x.sender)
     /\ NoBar(arg.y.subject) /\ NoBar(arg.y.sender))
  => res.x # res.y
\* the textual parts of the message in arg
HasPlain == HasPart(Walk(arg.msg), "text/plain")
HasHtml == HasPart(Walk(arg.msg), "text/html")

\* C14: the body an extraction returns is never empty, and it is the
\* sentinel when the message has neither a text/plain nor a text/html part.
C14_BodyNeverEmpty ==
  res.fn = "body"
  => /\ res.body # <<>>
     /\ (~HasPlain /\ ~HasHtml) => res.body = Sentinel

C14_Witness ==
  /\ res.fn = "body"
  /\ IsMultipart(arg.msg)
  /\ Len(Walk(arg.msg)) = 4
  /\ ~HasPlain
  /\ ~HasHtml
  /\ res.body = Sentinel

\* a span "<" ... ">" of s: an opening and a later closing angle bracket with
\* at least one character and no angle bracket between them
HasSpan(s) ==
  \E i, j \in 1..Len(s) :
    /\ i + 1 < j
    /\ s[i] = "<"
    /\ s[j] = ">"
    /\ \A k \in (i + 1)..(j - 1) : s[k] \notin {"<", ">"}

\* C15: the body of a message whose only textual part is HTML holds no span
\* "<" ... ">".
C15_NoSpanLeft ==
  (res.fn = "body" /\ HasHtml /\ ~HasPlain) => ~HasSpan(res.body)

\* C15, for HTML in which no "<" stands between a "<" and the next ">"
C15_NoSpanLeftUnnested ==
  (res.fn = "body" /\ arg.msg.type = "text/html"
     /\ \A i \in 1..Len(arg.msg.content) :
          arg.msg.content[i] = "<" =>
            \A j \in (i + 1)..Len(arg.msg.content) :
              arg.msg.content[j] = "<" =>
                \E k \in (i + 1)..(j - 1) : arg.msg.content[k] = ">")
  => ~HasSpan(res.body)

\* what becomes of the content chosen for the body: strip, then the sentinel
Finish(text) == IF StripSpace(text) = <<>> THEN Sentinel ELSE StripSpace(text)

\* C16: when the part tree holds a text/plain part the body is taken from the
\* first of them in depth-first order and no HTML part is used; the first
\* text/html part is used only when there is no text/plain part.
C16_PlainPreferred ==
  res.fn = "body"
  => /\ HasPlain => res.body = Finish(FirstPart(Walk(arg.msg), "text/plain").content)
     /\ (~HasPlain /\ HasHtml)
          => res.body = Finish(StripTags(FirstPart(Walk(arg.msg), "text/html").content))

\* C16, for messages whose first text/plain part is not empty
C16_NonEmptyPlainPreferred ==
  (res.fn = "body" /\ HasPlain
     /\ FirstPart(Walk(arg.msg), "text/plain").content # <<>>)
  => res.body = Finish(FirstPart(Walk(arg.msg), "text/plain").content)
\* whether a keyword of the tier occurs, in any letter case, in the subject
\* or the sender in arg
Occurs(tier) ==
  \E i \in 1..Len(PriorityIndicators[tier].indicators) :
    \/ In(PriorityIndicators[tier].indicators[i], ToLower(arg.subject))
    \/ In(PriorityIndicators[tier].indicators[i], ToLower(arg.sender))

\* C17: the priority is high whenever a high keyword occurs, medium only if
\* no high keyword occurs, low only if no high and no medium keyword occurs,
\* and normal exactly when no keyword occurs; "URGENT: system down" is high
\* and "Weekly Newsletter" is low.
C17_FirstTierWins ==
  res.fn = "priority"
  => /\ Occurs(1) => res.priority = "high"
     /\ res.priority = "high" => Occurs(1)
     /\ res.priority = "medium" => (~Occurs(1) /\ Occurs(2))
     /\ res.priority = "low" => (~Occurs(1) /\ ~Occurs(2) /\ Occurs(3))
     /\ res.priority = "normal" <=> (~Occurs(1) /\ ~Occurs(2) /\ ~Occurs(3))
     /\ (arg.subject = UrgentExample /\ arg.sender = <<"a", "@", "b">>)
          => res.priority = "high"
     /\ (arg.subject = NewsletterExample /\ arg.sender = <<"a", "@", "b">>)
          => res.priority = "low"

C17_Witness ==
  /\ res.fn = "priority"
  /\ Occurs(1)
  /\ Occurs(2)
  /\ Occurs(3)
  /\ In(<<"U", "R", "G", "E", "N", "T">>, arg.subject)
  /\ res.priority = "high"

\* the bracket-delimited spans [X] of s, X not empty and free of brackets,
\* that do not begin inside a bracket left open
SimpleBrackets(s) ==
  LET spans == {ij \in (1..Len(s)) \X (1..Len(s)) :
                  /\ ij[1] + 1 < ij[2]
                  /\ s[ij[1]] = "["
                  /\ s[ij[2]] = "]"
                  /\ \A k \in (ij[1] + 1)..(ij[2] - 1) : s[k] \notin {"[", "]"}
                  /\ \A k \in 1..(ij[1] - 1) :
                       s[k] = "[" => \E c \in (k + 1)..(ij[1] - 1) : s[c] = "]"}
  IN  {SubSeq(s, ij[1] + 1, ij[2] - 1) : ij \in spans}

\* what follows the leftmost occurrence of key (in any letter case) in s,
\* up to the next white space; empty when key does not occur
AfterFirst(key, s) ==
  LET at == {i \in 1..(Len(s) + 1 - Len(key)) :
               ToLower(SubSeq(s, i, i + Len(key) - 1)) = key}
  IN  IF at = {} THEN <<>>
      ELSE LET i == CHOOSE i \in at : \A k \in at : i <= k
           IN  Word(LStrip(SubSeq(s, i + Len(key), Len(s))))

\* C18: the labels hold no string twice; they hold every bracket-delimited
\* span of the subject (found from left to right, a span ending at the first
\* "]" after its "[") and what follows "Label:" and "Category:", 'automated'
\* when the sender contains "noreply", 'newsletter' when subject or sender
\* contains "newsletter", 'urgent' when the subject contains "urgent" or
\* "asap" (in any letter case), and nothing else: every label is one of the
\* fixed labels, under its condition, or taken from the subject;
\* "[Urgent] [Billing] Please review" yields Urgent, Billing and urgent.
C18_LabelsAreTheUnion ==
  res.fn = "labels"
  => LET labels == Range(res.labels)
         su == ToLower(arg.subject)
         se == ToLower(arg.sender)
         automated == In(NoReply, se)
         newsletter == In(Newsletter, se) \/ In(Newsletter, su)
         urgent == In(Urgent, su) \/ In(Asap, su)
     IN  /\ Len(res.labels) = Cardinality(labels)
         /\ automated => Automated \in labels
         /\ newsletter => Newsletter \in labels
         /\ urgent => Urgent \in labels
         /\ SimpleBrackets(arg.subject) \subseteq labels
         /\ AfterFirst(LabelKey, arg.subject) # <<>>
              => AfterFirst(LabelKey, arg.subject) \in labels
         /\ AfterFirst(CategoryKey, arg.subject) # <<>>
              => AfterFirst(CategoryKey, arg.subject) \in labels
         /\ \A l \in labels :
              \/ l = Automated /\ automated
              \/ l = Newsletter /\ newsletter
              \/ l = Urgent /\ urgent
              \/ l # <<>> /\ In(l, arg.subject)
         /\ (arg.subject = BillingExample /\ arg.sender = <<"a", "@", "b">>)
              => labels = {<<"U", "r", "g", "e", "n", "t">>,
                           <<"B", "i", "l", "l", "i", "n", "g">>, Urgent}

C18_Witness ==
  /\ res.fn = "labels"
  /\ arg.subject = <<"[", "u", "r", "g", "e", "n", "t", "]", " ", "[", "U", "r", "g", "e", "n", "t", "]">>
  /\ Len(BuildLabels(arg.subject, arg.sender)) = 3
  /\ Len(res.labels) = 2
\* C19: in the running watcher the handler handles an event only after the
\* initial scan has completed, and the call in flight belongs to one thread:
\* to the scan of the main thread while the handler is idle, or to the
\* handler of the observer thread once the scan is over.
C19_OneCallAtATime ==
  /\ handler.at # "idle" => (main # "scan" /\ ~scan.active)
  /\ obs # "none" => main # "scan"
  /\ pc # "idle" => \/ main = "scan" /\ scan.active /\ handler.at = "idle"
                    \/ main # "scan" /\ ~scan.active /\ handler.at = "call"

C19_Witness ==
  /\ main = "sleep"
  /\ handler.at = "call"
  /\ pc = "save_write"
  /\ scans = 1
  /\ recorded # {}

\* C20: a process that ended on an interrupt signal did not end a
\* process_email_file call between the truncation of the index file and the
\* end of its rewriting: the shutdown waited for the call in flight, or the
\* call was not inside its index write.
C20_ShutdownWaitsForCall ==
  (main = "exit" /\ signals > 0) => aborted # "save_write"

\* C20, for one signal that arrives while the main thread sleeps in the loop
\* of run_continuously
C20_JoinWaitsForHandler ==
  (main = "exit" /\ signals = 1 /\ obs # "none") => aborted = "none"

\* the last call was for p and ended Failed on a request that the remote
\* service did not answer with success
FailedUnavailable(p) ==
  proc = "up" /\ pc = "idle" /\ last.path = p /\ last.outcome = "Failed" /\ last.failed

\* a call for p has passed the duplicate check and is about to ingest
Retried(p) == pc = "ingest" /\ cur.path = p

\* C21: whenever a call for a file has ended Failed because the remote service
\* was unavailable, the watcher, as long as it runs, later calls
\* process_email_file for that file again; it does so on a next pass of its
\* own, without waiting for a watch event to be handled (stated for a
\* ProcessedIndex that is a mapping).
C21_FailedFileRetried ==
  \A p \in EmailFiles :
    []((FailedUnavailable(p) /\ mem.kind = "object")
         => <>(Retried(p) \/ main = "exit" \/ calls > 0))

\* C21, with the event: a failed file for which a created or moved event is
\* queued while the observer runs is processed again, unless the watcher is
\* stopped first.
C21_EventRetries ==
  \A p \in EmailFiles :
    []((FailedUnavailable(p) /\ obs = "running" /\ queue = <<Event("created", FALSE, p, "")>>)
         => <>(Retried(p) \/ main = "exit" \/ obs # "running"))


\* C22: a process_email_file call that has not ended can always take its
\* next step: none of its requests waits without limit for a remote service
\* that never answers.  (Each step moves the call on towards its end, so
\* this makes every call terminate.)
C22_CallCanGoOn == (proc = "up" /\ pc # "idle") => ENABLED Step

\* C22, for the basic variant alone (its one request carries timeout=30)
C22_BasicCallCanGoOn ==
  (proc = "up" /\ pc # "idle" /\ variant = "basic") => ENABLED Step

\* the requests of one call of the enhanced variant, in order
EnhancedRequests == <<"GET /health", "POST /v1/ingest/file", "PUT /v1/ingest/id/metadata">>

\* the call the requests in reqs belong to: the one in progress, or the last
TheCall == IF pc = "idle" THEN last ELSE cur

\* C23: the requests one call of the enhanced variant has sent are the health
\* probe, then the upload, then the metadata update, each at most once; an
\* upload was sent only after the probe was answered 200, a metadata update
\* only after the upload was answered 200 with an id.
C23_RequestsInOrder ==
  (variant = "enhanced" /\ pre.live)
  => /\ Len(reqs) <= 3
     /\ reqs = SubSeq(EnhancedRequests, 1, Len(reqs))
     /\ Len(reqs) >= 2 => TheCall.healthy
     /\ Len(reqs) >= 3 => TheCall.uploaded

C23_Witness ==
  /\ variant = "enhanced"
  /\ pre.live
  /\ pc = "idle"
  /\ reqs = EnhancedRequests
  /\ last.healthy
  /\ last.uploaded
  /\ last.outcome = "Processed"

\* the path of the process_email_file call that has just begun
BegunPath == IF pc' = "idle" THEN last'.path ELSE cur'.path

\* C24: when the handler is given an event, it goes into the grace period if
\* and only if the event is a created or moved event, not of a directory,
\* whose path (the destination for a move) has the suffix .eml, .mbox or
\* .elmx in any letter case, and then for that path; process_email_file is
\* called by the handler only out of the grace period, for that path, and
\* the handler then comes to its end without a second call.
C24_EventTriggersCall ==
  [][/\ (queue # <<>> /\ queue' = Tail(queue))
        => LET e == Head(queue)
               path == IF e.type = "moved" THEN e.dest_path ELSE e.src_path
               matches ==
                 /\ e.type \in {"created", "moved"}
                 /\ ~e.is_directory
                 /\ path \in {"a.eml", "d.EML"}
           IN  /\ handler'.at = "grace" <=> matches
               /\ handler'.at # "grace" => handler'.at = "idle"
               /\ handler'.at = "grace" => handler'.path = path
     /\ calls' # calls
        => /\ calls' = calls + 1
           /\ handler.at = "grace"
           /\ handler'.at = "call"
           /\ BegunPath = handler.path
     /\ (handler.at = "call" /\ handler'.at # "call") => handler'.at = "idle"
     /\ (handler.at = "grace" /\ handler'.at # "grace")
        => (handler'.at = "call" \/ main' = "exit")]_vars

C24_Witness ==
  /\ handler.at = "call"
  /\ handler.path = "d.EML"
  /\ calls = 1
  /\ last.path = "d.EML"
  /\ last.outcome = "Failed"
  /\ queue = <<>>

\* C25: a call for a file whose reading or extraction raises has ended with
\* Failed, has sent no request to the remote service and has left the
\* in-memory index and the index file as they were when it began.
C25_ExtractionFailureFails ==
  (pre.live /\ ~File(TheCall.path).parses)
  => /\ pc = "idle"
     /\ last.outcome = "Failed"
     /\ reqs = <<>>
     /\ mem = pre.mem
     /\ disk = pre.disk

C25_Witness ==
  /\ pre.live
  /\ pc = "idle"
  /\ last.path = "d.EML"
  /\ last.outcome = "Failed"
  /\ prev.outcome = "Processed"
  /\ mem.kind = "object"
  /\ DOMAIN mem.idx # {}
  /\ disk = FileJson(mem)

\* C26: while one process runs, every step leaves self.processed_emails as
\* it is or extends it: a fingerprint that is in it stays in it with the
\* metadata it has, also when the same message is processed again from
\* another path.
C26_IndexOnlyGrows ==
  [][(proc = "up" /\ proc' = "up") => (mem' = mem \/ Extends(mem', mem))]_vars

C26_Witness ==
  /\ pre.live
  /\ pc = "idle"
  /\ last.path = "b.eml"
  /\ last.outcome = "Skipped"
  /\ mem.kind = "object"
  /\ last.hash \in DOMAIN mem.idx
  /\ mem.idx[last.hash].source_file = "a.eml"

\* _ingest_to_private_gpt of the enhanced variant returns, having written its
\* temporary file
IngestReturns ==
  pc \in {"upload", "metadata"} /\ pc' \in {"idle", "save_open"} /\ proc' = "up"

\* C27: when _ingest_to_private_gpt of the enhanced variant returns, the
\* temporary file it wrote for the upload is no longer on disk, whether the
\* upload succeeded, was rejected or raised.
C27_TempFileRemoved == [][IngestReturns => cur.hash \notin temp']_vars

\* C27, for an upload that was answered 200
C27_TempFileRemovedAfterUpload ==
  [][(IngestReturns /\ (pc = "metadata" \/ (last'.stored /\ ~last'.failed)))
       => cur.hash \notin temp']_vars

\* C28: in the metadata of the enhanced extractor has_attachments is true if
\* and only if attachment_count is greater than 0, and attachment_count is
\* not negative.
C28_AttachmentFieldsAgree ==
  res.fn = "attachments"
  => /\ res.has_attachments <=> res.attachment_count > 0
     /\ res.attachment_count >= 0

\* C28, the part that holds: the count is the number of parts with a file
\* name, and a multipart message with such a part has has_attachments true
C28_CountIsNamedParts ==
  res.fn = "attachments"
  => /\ res.attachment_count >= 0
     /\ res.attachment_count <= Len(Walk(arg.msg))
     /\ (IsMultipart(arg.msg) /\ res.attachment_count > 0) => res.has_attachments

====
